---- MODULE Spec2Model ----
(***************************************************************************)
(* Model of plot_emissivities (src/main.py): one run of visualize_e        *)
(* against a solver session.  The solver is the state the script reads     *)
(* and writes: boundary conditions, wall data, named expressions, cell     *)
(* registers and contour graphics objects.                                 *)
(*                                                                         *)
(* Numbers.  A normalized emissivity (the float returned by a processor)   *)
(* is held as an integer count of thousandths: 800 is 0.8.  A raw float    *)
(* (a wall's value, or a named expression's value) is held as an integer   *)
(* count of ten-thousandths: 8004 is 0.8004.  A raw int is itself.         *)
(* Strings are TLA+ strings; where the code works on the characters of a   *)
(* string (str(), replace) the model works on a sequence of one-character  *)
(* strings and concatenates at the end.                                    *)
(***************************************************************************)
EXTENDS Integers, Sequences, FiniteSets, TLC

VARIABLES
    pc,                 \* position in visualize_e
    error,              \* the exception that ended the run, if any
    bcs_active,         \* solver.setup.boundary_conditions.is_active()
    contour_active,     \* solver.results.graphics.contour.is_active()
    walls,              \* solver.setup.boundary_conditions.wall(), in enumeration order
    named_expressions,  \* solver.setup.named_expressions
    cell_registers,     \* solver.tui.solve.cell_registers.add calls, in order
    contour,            \* solver.results.graphics.contour objects, in creation order
    init_count,         \* number of solver.solution.initialization.initialize() calls
    e_dict,             \* EmissivityManager.e_dict, in insertion order
    i,                  \* loop position: wall index in collect, group index in registers
    calls               \* the solver calls made so far, in order

vars == <<pc, error, bcs_active, contour_active, walls, named_expressions,
          cell_registers, contour, init_count, e_dict, i, calls>>

\* ------------------------------------------------------------------ bounds

MaxWalls == 4

\* ------------------------------------------------------------------ values

AllWallNames == <<"A", "B", "C", "D", "E", "F">>

IntVal(n) == [type |-> "int", num |-> n, str |-> ""]
FloatVal(n) == [type |-> "float", num |-> n, str |-> ""]
StrVal(s) == [type |-> "str", num |-> 0, str |-> s]
NoneVal == [type |-> "NoneType", num |-> 0, str |-> "None"]

\* The raw emissivity values a case may hold: 1, 0.8, 0.8004, 0.5, 0.1875,
\* the names of a defined and of an undefined expression, and None.
RawValues ==
    {IntVal(1), FloatVal(8000), FloatVal(8004), FloatVal(5000), FloatVal(1875),
     StrVal("e_wall"), StrVal("steel"), NoneVal}

\* wall_data.get('in_emiss'): absent, or a setting with a 'value'.
NoEmiss == [present |-> FALSE, value |-> NoneVal]
InEmiss == {NoEmiss} \cup {[present |-> TRUE, value |-> v] : v \in RawValues}

\* The named expressions a loaded case defines: e_wall = 0.9996.
CaseExpressions ==
    [n \in {"e_wall"} |-> [definition |-> "0.9996", value |-> 9996, terms |-> <<>>]]

NoExpressions == [n \in {} |-> [definition |-> "", value |-> 0, terms |-> <<>>]]

NoError == [kind |-> "", message |-> "", type |-> "", value |-> NoneVal]

\* ------------------------------------------------------------------ text

Digits == <<"0", "1", "2", "3", "4", "5", "6", "7", "8", "9">>

RECURSIVE Concat(_)
Concat(chars) ==
    IF chars = <<>> THEN "" ELSE Head(chars) \o Concat(Tail(chars))

RECURSIVE Join(_, _)
Join(sep, strs) ==
    IF strs = <<>> THEN ""
    ELSE IF Len(strs) = 1 THEN strs[1]
    ELSE strs[1] \o sep \o Join(sep, Tail(strs))

Replace(chars, old, new) ==
    [k \in DOMAIN chars |-> IF chars[k] = old THEN new ELSE chars[k]]

RECURSIVE IntChars(_)
IntChars(n) ==
    IF n < 10 THEN <<Digits[n + 1]>>
    ELSE IntChars(n \div 10) \o <<Digits[(n % 10) + 1]>>

FracChars(f) ==
    LET d1 == f \div 100
        d2 == (f \div 10) % 10
        d3 == f % 10
    IN  IF d3 # 0 THEN <<Digits[d1 + 1], Digits[d2 + 1], Digits[d3 + 1]>>
        ELSE IF d2 # 0 THEN <<Digits[d1 + 1], Digits[d2 + 1]>>
        ELSE <<Digits[d1 + 1]>>

\* str(emiss) of a float with at most three decimals: the shortest decimal
\* that reads back as the float, always with a fractional part.
StrFloat(k) == IntChars(k \div 1000) \o <<".">> \o FracChars(k % 1000)

\* ------------------------------------------------------------------ normalization

\* A faulty variant of Round3: the decimals beyond the third are cut off, not rounded.
Round3_truncate(n) == n \div 10

\* round(x, 3) of a float given in ten-thousandths, as thousandths: the
\* nearest thousandth, a value exactly halfway going to the even neighbour.
Round3(n) ==
    LET q == n \div 10
        r == n % 10
    IN  IF r < 5 THEN q
        ELSE IF r > 5 THEN q + 1
        ELSE IF q % 2 = 0 THEN q ELSE q + 1

\* IntEmissivityProcessor.process: float(emiss).
IntProcess(emiss) == emiss.num * 1000

\* FloatEmissivityProcessor.process: round(emiss, 3).
FloatProcess(emiss) == Round3(emiss.num)

\* NamedExpressionEmissivityProcessor.process: the expression's value, rounded.
NamedExpressionProcess(emiss, exprs) == Round3(exprs[emiss.str].value)

\* A faulty variant of create: no final raise, what is no int and no known name is
\* handed to the float processor.
create_no_raise(emiss, exprs) ==
    IF emiss.type = "int" THEN "IntEmissivityProcessor"
    ELSE IF emiss.type = "str" /\ emiss.str \in DOMAIN exprs
        THEN "NamedExpressionEmissivityProcessor"
    ELSE "FloatEmissivityProcessor"

\* EmissivityProcessorFactory.create: the processor chosen, or ValueError.
create(emiss, exprs) ==
    IF emiss.type = "float" THEN "FloatEmissivityProcessor"
    ELSE IF emiss.type = "int" THEN "IntEmissivityProcessor"
    ELSE IF emiss.type = "str" /\ emiss.str \in DOMAIN exprs
        THEN "NamedExpressionEmissivityProcessor"
    ELSE "ValueError"

process(processor, emiss, exprs) ==
    IF processor = "FloatEmissivityProcessor" THEN FloatProcess(emiss)
    ELSE IF processor = "IntEmissivityProcessor" THEN IntProcess(emiss)
    ELSE NamedExpressionProcess(emiss, exprs)

UnsupportedEmissivity(emiss) ==
    [kind |-> "ValueError", message |-> "Unsupported emissivity type: ",
     type |-> emiss.type, value |-> emiss]

BoundaryConditionError ==
    [kind |-> "BoundaryConditionError", message |-> "Load case file first.",
     type |-> "", value |-> NoneVal]

\* ------------------------------------------------------------------ grouping

\* A faulty variant of setdefault_append: e_dict[emiss_value] = [wall], the list of an
\* existing group is replaced.
setdefault_overwrite(d, emiss_value, wall) ==
    IF \E g \in DOMAIN d : d[g].key = emiss_value
    THEN LET g == CHOOSE h \in DOMAIN d : d[h].key = emiss_value
         IN  [d EXCEPT ![g].walls = <<wall>>]
    ELSE Append(d, [key |-> emiss_value, walls |-> <<wall>>])

\* self.e_dict.setdefault(emiss_value, []).append(wall)
setdefault_append(d, emiss_value, wall) ==
    IF \E g \in DOMAIN d : d[g].key = emiss_value
    THEN LET g == CHOOSE h \in DOMAIN d : d[h].key = emiss_value
         IN  [d EXCEPT ![g].walls = Append(@, wall)]
    ELSE Append(d, [key |-> emiss_value, walls |-> <<wall>>])

\* A faulty variant of name_emiss: the name is built from int(emiss).
name_emiss_truncated(emiss) == "e__" \o Concat(IntChars(emiss \div 1000))

\* "e__" + str(emiss).replace(".", "_")
name_emiss(emiss) == "e__" \o Concat(Replace(StrFloat(emiss), ".", "_"))

\* "(" + " ".join(wall_list) + ")"
walls_str(wall_list) == "(" \o Join(" ", wall_list) \o ")"

\* ------------------------------------------------------------------ expressions

\* A term of a definition, kept with the parts the f-string was built from.
\* "IF(" + cr_name + ",1,0)"
def_overlay(cr_name) ==
    [text |-> "IF(" \o cr_name \o ",1,0)",
     guarded |-> FALSE, below |-> 0, region |-> cr_name, value |-> <<"1">>]

\* A faulty variant of def_emiss: the term is not gated on overlay.
def_emiss_unguarded(cr_name, emiss) ==
    [text |-> "IF(" \o cr_name \o "," \o Concat(StrFloat(emiss)) \o ",0)",
     guarded |-> FALSE, below |-> 0, region |-> cr_name, value |-> StrFloat(emiss)]

\* f"IF(AND(overlay<2,{cr_name}),{emiss},0)"
def_emiss(cr_name, emiss) ==
    [text |-> "IF(AND(overlay<2," \o cr_name \o ")," \o Concat(StrFloat(emiss)) \o ",0)",
     guarded |-> TRUE, below |-> 2, region |-> cr_name, value |-> StrFloat(emiss)]

overlay_lst(d) == [g \in DOMAIN d |-> def_overlay(name_emiss(d[g].key))]

\* A faulty variant of def_lst: the terms are collected last group first.
def_lst_reversed(d) ==
    [g \in DOMAIN d |->
        def_emiss(name_emiss(d[Len(d) + 1 - g].key), d[Len(d) + 1 - g].key)]

def_lst(d) == [g \in DOMAIN d |-> def_emiss(name_emiss(d[g].key), d[g].key)]

full_def(terms) == Join("+", [t \in DOMAIN terms |-> terms[t].text])

\* A faulty variant of surf_disp: only the first wall of each group is taken.
RECURSIVE surf_disp_first(_)
surf_disp_first(d) ==
    IF d = <<>> THEN <<>> ELSE <<Head(d).walls[1]>> \o surf_disp_first(Tail(d))

\* [surf for surfaces in e_dict.values() for surf in surfaces]
RECURSIVE surf_disp(_)
surf_disp(d) ==
    IF d = <<>> THEN <<>> ELSE Head(d).walls \o surf_disp(Tail(d))

contour_emissivity(d) ==
    [name |-> "contour_emissivity", field |-> "expr:emiss", filled |-> TRUE,
     surfaces_list |-> surf_disp(d), displayed |-> FALSE]

\* ------------------------------------------------------------------ the run

Call(op, arg) == [op |-> op, arg |-> arg]

\* A faulty variant of visualize_e: the expressions are created before the registers.
visualize_e_reordered(step) ==
    CASE step = "read_case" -> "check_BCs"
      [] step = "check_BCs" -> "is_initialized"
      [] step = "is_initialized" -> "initialize"
      [] step = "initialize" -> "collect_emissivities"
      [] step = "collect_emissivities" -> "create_emissivity_expression"
      [] step = "create_emissivity_expression" -> "create_emissivities_cell_registers"
      [] step = "create_emissivities_cell_registers" -> "create_contour_plot"
      [] step = "create_contour_plot" -> "done"

\* visualize_e: the step that follows each step when nothing is raised.
visualize_e(step) ==
    CASE step = "read_case" -> "check_BCs"
      [] step = "check_BCs" -> "is_initialized"
      [] step = "is_initialized" -> "initialize"
      [] step = "initialize" -> "collect_emissivities"
      [] step = "collect_emissivities" -> "create_emissivities_cell_registers"
      [] step = "create_emissivities_cell_registers" -> "create_emissivity_expression"
      [] step = "create_emissivity_expression" -> "create_contour_plot"
      [] step = "create_contour_plot" -> "done"

\* The cases read_case may load.  Without a loaded case the boundary
\* conditions are inactive and there are no walls or expressions.
WallLists ==
    UNION {[1..n -> InEmiss] : n \in 0..MaxWalls}

Walls(settings) ==
    [w \in DOMAIN settings |-> [name |-> AllWallNames[w], in_emiss |-> settings[w]]]

Init ==
    /\ pc = "read_case"
    /\ error = NoError
    /\ bcs_active = FALSE
    /\ contour_active = FALSE
    /\ walls = <<>>
    /\ named_expressions = NoExpressions
    /\ cell_registers = <<>>
    /\ contour = <<>>
    /\ init_count = 0
    /\ e_dict = <<>>
    /\ i = 1
    /\ calls = <<>>

\* solver.file.read_case(file_name=case_file)
read_case ==
    /\ pc = "read_case"
    /\ \/ /\ bcs_active' = TRUE
          /\ \E settings \in WallLists : walls' = Walls(settings)
          /\ named_expressions' = CaseExpressions
       \/ /\ bcs_active' = FALSE
          /\ walls' = <<>>
          /\ named_expressions' = NoExpressions
    /\ contour_active' \in BOOLEAN
    /\ calls' = Append(calls, Call("read_case", ""))
    /\ pc' = visualize_e(pc)
    /\ UNCHANGED <<error, cell_registers, contour, init_count, e_dict, i>>

\* A faulty variant of check_BCs: the activity is queried and nothing is raised.
check_BCs_no_raise ==
    /\ pc = "check_BCs"
    /\ calls' = Append(calls, Call("boundary_conditions.is_active", ""))
    /\ pc' = visualize_e(pc)
    /\ UNCHANGED <<error, bcs_active, contour_active, walls, named_expressions,
                   cell_registers, contour, init_count, e_dict, i>>

\* SolverManager.check_BCs
check_BCs ==
    /\ pc = "check_BCs"
    /\ calls' = Append(calls, Call("boundary_conditions.is_active", ""))
    /\ IF ~bcs_active
       THEN /\ error' = BoundaryConditionError
            /\ pc' = "failed"
       ELSE /\ pc' = visualize_e(pc)
            /\ UNCHANGED error
    /\ UNCHANGED <<bcs_active, contour_active, walls, named_expressions,
                   cell_registers, contour, init_count, e_dict, i>>

\* A faulty variant of is_initialized: the result is inverted.
is_initialized_inverted ==
    /\ pc = "is_initialized"
    /\ calls' = Append(calls, Call("contour.is_active", ""))
    /\ IF contour_active
       THEN pc' = visualize_e(pc)
       ELSE pc' = visualize_e(visualize_e(pc))
    /\ UNCHANGED <<error, bcs_active, contour_active, walls, named_expressions,
                   cell_registers, contour, init_count, e_dict, i>>

\* SolverManager.is_initialized, and the branch of visualize_e on its result
is_initialized ==
    /\ pc = "is_initialized"
    /\ calls' = Append(calls, Call("contour.is_active", ""))
    /\ IF ~contour_active
       THEN pc' = visualize_e(pc)
       ELSE pc' = visualize_e(visualize_e(pc))
    /\ UNCHANGED <<error, bcs_active, contour_active, walls, named_expressions,
                   cell_registers, contour, init_count, e_dict, i>>

\* SolverManager.initialize
initialize ==
    /\ pc = "initialize"
    /\ init_count' = init_count + 1
    /\ calls' = Append(calls, Call("initialization.initialize", ""))
    /\ pc' = visualize_e(pc)
    /\ UNCHANGED <<error, bcs_active, contour_active, walls, named_expressions,
                   cell_registers, contour, e_dict, i>>

\* EmissivityManager.collect_emissivities: one pass of the loop over the
\* walls, and the return once the walls are exhausted.
collect_emissivities ==
    /\ pc = "collect_emissivities"
    /\ IF i > Len(walls)
       THEN /\ pc' = visualize_e(pc)
            /\ i' = 1
            /\ UNCHANGED <<error, e_dict, calls>>
       ELSE LET wall == walls[i].name
                emiss == walls[i].in_emiss
                processor == create(emiss.value, named_expressions)
            IN  /\ calls' = Append(calls, Call("wall", wall))
                /\ IF ~emiss.present
                   THEN /\ i' = i + 1
                        /\ UNCHANGED <<pc, error, e_dict>>
                   ELSE IF processor = "ValueError"
                   THEN /\ error' = UnsupportedEmissivity(emiss.value)
                        /\ pc' = "failed"
                        /\ UNCHANGED <<e_dict, i>>
                   ELSE /\ e_dict' = setdefault_append(e_dict,
                                process(processor, emiss.value, named_expressions), wall)
                        /\ i' = i + 1
                        /\ UNCHANGED <<pc, error>>
    /\ UNCHANGED <<bcs_active, contour_active, walls, named_expressions,
                   cell_registers, contour, init_count>>

\* EmissivityManager.create_emissivities_cell_registers: one pass of the
\* loop over the groups, and the return once the groups are exhausted.
create_emissivities_cell_registers ==
    /\ pc = "create_emissivities_cell_registers"
    /\ IF i > Len(e_dict)
       THEN /\ pc' = visualize_e(pc)
            /\ i' = 1
            /\ UNCHANGED <<cell_registers, calls>>
       ELSE LET cr_name == name_emiss(e_dict[i].key)
                wall_list == e_dict[i].walls
            IN  /\ cell_registers' = Append(cell_registers,
                        [name |-> cr_name, type |-> "boundary",
                         boundary_list |-> walls_str(wall_list),
                         boundaries |-> wall_list])
                /\ calls' = Append(calls, Call("cell_registers.add", cr_name))
                /\ i' = i + 1
                /\ UNCHANGED pc
    /\ UNCHANGED <<error, bcs_active, contour_active, walls, named_expressions,
                   contour, init_count, e_dict>>

SetExpression(exprs, name, terms) ==
    [n \in DOMAIN exprs \cup {name} |->
        IF n = name
        THEN [definition |-> full_def(terms), value |-> 0, terms |-> terms]
        ELSE exprs[n]]

\* EmissivityManager.create_emissivity_expression: "overlay" is set, then "emiss".
create_emissivity_expression ==
    /\ pc = "create_emissivity_expression"
    /\ named_expressions' =
          SetExpression(SetExpression(named_expressions, "overlay", overlay_lst(e_dict)),
                        "emiss", def_lst(e_dict))
    /\ calls' = calls \o <<Call("named_expressions", "overlay"),
                           Call("named_expressions", "emiss")>>
    /\ pc' = visualize_e(pc)
    /\ UNCHANGED <<error, bcs_active, contour_active, walls, cell_registers,
                   contour, init_count, e_dict, i>>

\* ContourPlotManager.create_contour_plot: the object is created, then displayed.
create_contour_plot ==
    /\ pc = "create_contour_plot"
    /\ contour' = Append(contour, [contour_emissivity(e_dict) EXCEPT !.displayed = TRUE])
    /\ calls' = calls \o <<Call("contour", "contour_emissivity"),
                           Call("contour.display", "contour_emissivity")>>
    /\ pc' = visualize_e(pc)
    /\ UNCHANGED <<error, bcs_active, contour_active, walls, named_expressions,
                   cell_registers, init_count, e_dict, i>>

Next ==
    \/ read_case
    \/ check_BCs
    \/ is_initialized
    \/ initialize
    \/ collect_emissivities
    \/ create_emissivities_cell_registers
    \/ create_emissivity_expression
    \/ create_contour_plot

Spec == Init /\ [][Next]_vars

\* ------------------------------------------------------------------ solver-side evaluation

RECURSIVE ParseDigits(_)
ParseDigits(chars) ==
    IF chars = <<>> THEN 0
    ELSE 10 * ParseDigits(SubSeq(chars, 1, Len(chars) - 1))
         + ((CHOOSE d \in 1..10 : Digits[d] = chars[Len(chars)]) - 1)

\* The number a literal of a definition denotes, in thousandths.
ParseValue(chars) ==
    LET dots == {k \in DOMAIN chars : chars[k] = "."}
    IN  IF dots = {} THEN 1000 * ParseDigits(chars)
        ELSE LET dot == CHOOSE k \in dots : TRUE
                 frac == SubSeq(chars, dot + 1, Len(chars))
                 scale == IF Len(frac) = 1 THEN 100 ELSE IF Len(frac) = 2 THEN 10 ELSE 1
             IN  1000 * ParseDigits(SubSeq(chars, 1, dot - 1)) + scale * ParseDigits(frac)

\* The boundaries of the cell register of that name (the last one added).
RegisterBoundaries(cr_name) ==
    LET added == {r \in DOMAIN cell_registers : cell_registers[r].name = cr_name}
    IN  IF added = {} THEN <<>>
        ELSE cell_registers[CHOOSE r \in added : \A q \in added : q <= r].boundaries

\* A cell is given by the set of walls it lies on; a register selects it
\* when one of the register's boundaries is among them.
RegionHolds(cr_name, cell) ==
    \E k \in DOMAIN RegisterBoundaries(cr_name) : RegisterBoundaries(cr_name)[k] \in cell

RECURSIVE SumTerms(_, _, _)
SumTerms(terms, cell, overlay) ==
    IF terms = <<>> THEN 0
    ELSE LET t == Head(terms)
         IN  (IF (t.guarded => overlay < 1000 * t.below) /\ RegionHolds(t.region, cell)
              THEN ParseValue(t.value) ELSE 0)
             + SumTerms(Tail(terms), cell, overlay)

\* The value, in thousandths, the solver gives the expressions at a cell.
EvalOverlay(cell) == SumTerms(named_expressions["overlay"].terms, cell, 0)

EvalEmiss(cell) == SumTerms(named_expressions["emiss"].terms, cell, EvalOverlay(cell))

\* ------------------------------------------------------------------ claims

WallNameSet == {walls[w].name : w \in DOMAIN walls}

Defined(w) == walls[w].in_emiss.present

Count(seq, x) == Cardinality({k \in DOMAIN seq : seq[k] = x})

GroupsOf(wall) == {g \in DOMAIN e_dict : Count(e_dict[g].walls, wall) > 0}

Collected ==
    pc \in {"create_emissivities_cell_registers", "create_emissivity_expression",
            "create_contour_plot", "done"}

Registered == pc \in {"create_emissivity_expression", "create_contour_plot", "done"}

Expressed == {"overlay", "emiss"} \subseteq DOMAIN named_expressions

NothingCreated ==
    /\ cell_registers = <<>>
    /\ {"overlay", "emiss"} \cap DOMAIN named_expressions = {}
    /\ contour = <<>>

Positions(op, arg) == {k \in DOMAIN calls : calls[k] = Call(op, arg)}

PositionsOf(op) == {k \in DOMAIN calls : calls[k].op = op}

\* C1: once collect_emissivities has returned, every wall with an emissivity
\* setting is in exactly one group's list, exactly once, every wall without
\* one is in no list, and the lists hold nothing but walls.
C1_Partition ==
    Collected =>
        /\ \A w \in DOMAIN walls :
              IF Defined(w)
              THEN /\ Cardinality(GroupsOf(walls[w].name)) = 1
                   /\ \A g \in GroupsOf(walls[w].name) :
                          Count(e_dict[g].walls, walls[w].name) = 1
              ELSE GroupsOf(walls[w].name) = {}
        /\ \A g \in DOMAIN e_dict :
              \A k \in DOMAIN e_dict[g].walls : e_dict[g].walls[k] \in WallNameSet

C1_Witness ==
    /\ Collected
    /\ Len(e_dict) >= 2
    /\ \E g \in DOMAIN e_dict : Len(e_dict[g].walls) >= 2
    /\ \E w \in DOMAIN walls : ~Defined(w)

\* C2: with inactive boundary conditions the run ends at check_BCs with
\* BoundaryConditionError("Load case file first."); nothing was grouped,
\* registered, defined or plotted, initialization was not triggered, and
\* the only solver calls were the case read and the activity query.
C2_InactiveFailsFirst ==
    (~bcs_active /\ pc \notin {"read_case", "check_BCs"}) =>
        /\ pc = "failed"
        /\ error = BoundaryConditionError
        /\ e_dict = <<>>
        /\ NothingCreated
        /\ init_count = 0
        /\ calls = <<Call("read_case", ""), Call("boundary_conditions.is_active", "")>>

C2_Witness ==
    /\ pc = "failed"
    /\ ~bcs_active
    /\ error.message = "Load case file first."

\* A wall whose emissivity value cannot be normalized: a string naming no
\* expression of the case, or a value that is no int, float or string.
Offending(w) ==
    /\ Defined(w)
    /\ LET v == walls[w].in_emiss.value
       IN  \/ v.type = "str" /\ v.str \notin DOMAIN CaseExpressions
           \/ v.type \notin {"int", "float", "str"}

FirstOffending == CHOOSE w \in DOMAIN walls : Offending(w) /\ \A u \in 1..(w - 1) : ~Offending(u)

\* C3: a run over a case with an offending wall never gets past
\* collect_emissivities: it ends there with the ValueError naming the type
\* and the value of the first offending wall, at whatever position that wall
\* is enumerated, and no cell register, "overlay"/"emiss" expression or plot
\* exists at any moment of the run.  No other run raises that error.
C3_UnsupportedFailsBeforeCreation ==
    /\ (bcs_active /\ \E w \in DOMAIN walls : Offending(w)) =>
          /\ pc \in {"check_BCs", "is_initialized", "initialize",
                     "collect_emissivities", "failed"}
          /\ NothingCreated
          /\ pc = "collect_emissivities" => i <= FirstOffending
          /\ pc = "failed" =>
                /\ error.kind = "ValueError"
                /\ error.message = "Unsupported emissivity type: "
                /\ error.type = walls[FirstOffending].in_emiss.value.type
                /\ error.value = walls[FirstOffending].in_emiss.value
                /\ i = FirstOffending
    /\ error.kind = "ValueError" => \E w \in DOMAIN walls : Offending(w)

C3_Witness ==
    /\ pc = "failed"
    /\ error.kind = "ValueError"
    /\ error.type = "str"
    /\ error.value.str = "steel"
    /\ Len(walls) >= 3
    /\ FirstOffending = Len(walls)
    /\ Len(e_dict) >= 2

\* C4: once "overlay" and "emiss" are defined over at least one group, at
\* every cell (any set of walls the cell lies on), with S the groups having
\* a wall of the cell:
\* overlay is |S|; emiss is the value of the one group of S when |S| = 1 and
\* 0 when S is empty or has two or more groups.
C4_OverlayGuard ==
    (Expressed /\ e_dict # <<>>) =>
        \A cell \in SUBSET WallNameSet :
            LET S == {g \in DOMAIN e_dict :
                        \E k \in DOMAIN e_dict[g].walls : e_dict[g].walls[k] \in cell}
            IN  /\ EvalOverlay(cell) = 1000 * Cardinality(S)
                /\ EvalEmiss(cell) =
                      IF Cardinality(S) = 1 THEN e_dict[CHOOSE g \in S : TRUE].key ELSE 0

C4_Witness ==
    /\ Expressed
    /\ Len(e_dict) >= 3
    /\ \E g \in DOMAIN e_dict : Len(e_dict[g].walls) >= 2
    /\ EvalEmiss({"A"}) = 188
    /\ EvalEmiss({"A", "B"}) = 0
    /\ EvalOverlay({"A", "B", "D"}) = 3000

\* The walls of the end-to-end scenario: A: 0.8, B: 0.8, C: 0.5, D: no emissivity.
ScenarioWalls ==
    Walls(<<[present |-> TRUE, value |-> FloatVal(8000)],
            [present |-> TRUE, value |-> FloatVal(8000)],
            [present |-> TRUE, value |-> FloatVal(5000)],
            NoEmiss>>)

\* C5: once the registers are created there is one per group, in group
\* order, named name_emiss(value) and bound to the group's wall list; once
\* the expressions are defined, "overlay" is the "+"-join of IF(<name>,1,0)
\* and "emiss" the "+"-join of IF(AND(overlay<2,<name>),<value>,0), one term
\* per group in the order the groups were created; and the scenario gives
\* the registers and definitions the specification lists.
C5_RegistersAndDefinitions ==
    /\ Registered =>
          /\ Len(cell_registers) = Len(e_dict)
          /\ \A g \in DOMAIN e_dict :
                /\ cell_registers[g].name = name_emiss(e_dict[g].key)
                /\ cell_registers[g].boundaries = e_dict[g].walls
                /\ cell_registers[g].boundary_list =
                      "(" \o Join(" ", e_dict[g].walls) \o ")"
          /\ \A g \in DOMAIN e_dict : \A w \in DOMAIN walls :
                (Defined(w) /\ GroupsOf(walls[w].name) = {g}) =>
                    \A h \in 1..(g - 1) : \E u \in 1..(w - 1) :
                        GroupsOf(walls[u].name) = {h}
    /\ Expressed =>
          /\ named_expressions["overlay"].definition =
                Join("+", [g \in DOMAIN e_dict |->
                    "IF(" \o cell_registers[g].name \o ",1,0)"])
          /\ named_expressions["emiss"].definition =
                Join("+", [g \in DOMAIN e_dict |->
                    "IF(AND(overlay<2," \o cell_registers[g].name \o "),"
                        \o Concat(StrFloat(e_dict[g].key)) \o ",0)"])
    /\ (Expressed /\ walls = ScenarioWalls) =>
          /\ [r \in DOMAIN cell_registers |->
                <<cell_registers[r].name, cell_registers[r].boundary_list>>]
                = << <<"e__0_8", "(A B)">>, <<"e__0_5", "(C)">> >>
          /\ named_expressions["overlay"].definition = "IF(e__0_8,1,0)+IF(e__0_5,1,0)"
          /\ named_expressions["emiss"].definition =
                "IF(AND(overlay<2,e__0_8),0.8,0)+IF(AND(overlay<2,e__0_5),0.5,0)"

C5_Witness ==
    /\ pc = "done"
    /\ walls = ScenarioWalls
    /\ Len(cell_registers) = 2
    /\ named_expressions["overlay"].definition = "IF(e__0_8,1,0)+IF(e__0_5,1,0)"

\* C6: the keys of the grouping are pairwise distinct and so are their
\* names, every register carries the name of its group's value, and no two
\* registers share a name.
C6_NamesCollisionFree ==
    /\ \A g, h \in DOMAIN e_dict :
          g # h => /\ e_dict[g].key # e_dict[h].key
                   /\ name_emiss(e_dict[g].key) # name_emiss(e_dict[h].key)
    /\ \A r, q \in DOMAIN cell_registers :
          /\ cell_registers[r].name = name_emiss(e_dict[r].key)
          /\ r # q => cell_registers[r].name # cell_registers[q].name

C6_Witness ==
    /\ Registered
    /\ Len(cell_registers) = 4
    /\ {cell_registers[r].name : r \in DOMAIN cell_registers}
          = {"e__1_0", "e__0_8", "e__0_5", "e__0_188"}

\* C7: the plot created has the field "expr:emiss" and a surface list that
\* holds every wall with an emissivity setting exactly once, no wall
\* without one, and exactly the walls that are in some group.
C7_PlotSurfaces ==
    /\ Len(contour) <= 1
    /\ (pc = "done") = (contour # <<>>)
    /\ contour # <<>> =>
          /\ contour[1].name = "contour_emissivity"
          /\ contour[1].field = "expr:emiss"
          /\ contour[1].displayed
          /\ \A w \in DOMAIN walls :
                Count(contour[1].surfaces_list, walls[w].name)
                    = IF Defined(w) THEN 1 ELSE 0
          /\ {contour[1].surfaces_list[k] : k \in DOMAIN contour[1].surfaces_list}
                = UNION {{e_dict[g].walls[k] : k \in DOMAIN e_dict[g].walls} :
                            g \in DOMAIN e_dict}

C7_Witness ==
    /\ pc = "done"
    /\ contour[1].surfaces_list = <<"A", "D", "B">>
    /\ ~Defined(3)

\* The raw value as the number it denotes, in ten-thousandths.
Denoted(v) ==
    IF v.type = "int" THEN 10000 * v.num
    ELSE IF v.type = "float" THEN v.num
    ELSE CaseExpressions[v.str].value

\* The thousandth nearest to a number of ten-thousandths (the even one of
\* the two when it is halfway).
Nearest(n) ==
    CHOOSE k \in {n \div 10, (n \div 10) + 1} :
        LET dist == IF 10 * k >= n THEN 10 * k - n ELSE n - 10 * k
        IN  dist < 5 \/ (dist = 5 /\ k % 2 = 0)

\* C8: once collected, two walls with emissivity settings are in the same
\* group exactly when their raw values, whatever their representation,
\* denote numbers with the same nearest thousandth; and that thousandth is
\* the key of their group.
C8_GroupByRoundedValue ==
    Collected =>
        \A a, b \in {w \in DOMAIN walls : Defined(w)} :
            /\ (GroupsOf(walls[a].name) = GroupsOf(walls[b].name))
                  = (Nearest(Denoted(walls[a].in_emiss.value))
                        = Nearest(Denoted(walls[b].in_emiss.value)))
            /\ \A g \in GroupsOf(walls[a].name) :
                  e_dict[g].key = Nearest(Denoted(walls[a].in_emiss.value))

C8_Witness ==
    /\ Collected
    /\ Len(walls) = 4
    /\ walls[1].in_emiss.value = IntVal(1)
    /\ walls[2].in_emiss.value = FloatVal(8004)
    /\ walls[3].in_emiss.value = StrVal("e_wall")
    /\ walls[4].in_emiss.value = FloatVal(8000)
    /\ \A w \in DOMAIN walls : Defined(w)
    /\ e_dict = <<[key |-> 1000, walls |-> <<"A", "C">>],
                  [key |-> 800, walls |-> <<"B", "D">>]>>

\* C9: with active boundary conditions, initialization is triggered at most
\* once, and exactly when the contour graphics object is inactive; the
\* trigger comes after the boundary-condition check and before any wall is
\* read and any register, expression or plot is created.
C9_InitializeIffNoData ==
    /\ init_count <= 1
    /\ init_count = Cardinality(PositionsOf("initialization.initialize"))
    /\ (bcs_active /\ pc \notin {"read_case", "check_BCs", "is_initialized"}) =>
          init_count = IF contour_active \/ pc = "initialize" THEN 0 ELSE 1
    /\ pc = "initialize" => ~contour_active
    /\ \A k \in PositionsOf("initialization.initialize") :
          /\ \E q \in 1..(k - 1) : calls[q].op = "boundary_conditions.is_active"
          /\ \A q \in 1..(k - 1) :
                calls[q].op \in {"read_case", "boundary_conditions.is_active",
                                 "contour.is_active"}
    /\ (init_count = 0 /\ pc \in {"read_case", "check_BCs", "is_initialized", "initialize"})
          => (e_dict = <<>> /\ NothingCreated /\ PositionsOf("wall") = {})

C9_Witness ==
    /\ pc = "done"
    /\ init_count = 1
    /\ ~contour_active
    /\ Len(cell_registers) >= 2

\* C10: objects are created in dependency order: the registers named in
\* "overlay" and "emiss" exist when those are defined, "overlay" is set
\* before "emiss", the plot is created after "emiss"; a finished run has
\* created all of them.
C10_DependencyOrder ==
    /\ \A n \in {"overlay", "emiss"} \cap DOMAIN named_expressions :
          \A t \in DOMAIN named_expressions[n].terms :
              /\ \E r \in DOMAIN cell_registers :
                    cell_registers[r].name = named_expressions[n].terms[t].region
              /\ \A d \in Positions("named_expressions", n) :
                    \E a \in Positions("cell_registers.add",
                                       named_expressions[n].terms[t].region) : a < d
    /\ "emiss" \in DOMAIN named_expressions => "overlay" \in DOMAIN named_expressions
    /\ \A e \in Positions("named_expressions", "emiss") :
          \E o \in Positions("named_expressions", "overlay") : o < e
    /\ \A a \in PositionsOf("cell_registers.add") :
          \A o \in Positions("named_expressions", "overlay") : a < o
    /\ contour # <<>> => "emiss" \in DOMAIN named_expressions
    /\ \A c \in PositionsOf("contour") :
          \E e \in Positions("named_expressions", "emiss") : e < c
    /\ pc = "done" =>
          /\ Expressed
          /\ Len(cell_registers) = Len(e_dict)
          /\ Cardinality(PositionsOf("contour")) = 1
          /\ Cardinality(Positions("named_expressions", "overlay")) = 1
          /\ Cardinality(Positions("named_expressions", "emiss")) = 1

C10_Witness ==
    /\ pc = "done"
    /\ Len(cell_registers) >= 2
    /\ Len(named_expressions["emiss"].terms) >= 2

====
